---- MODULE Spec2Model ----
(***************************************************************************)
(* wikiquery: the request builder (requests.rs, requests/*.rs) and the     *)
(* continuation tokens it merges (responses.rs).                           *)
(*                                                                         *)
(* A Rust String is a sequence of text atoms: <<"a">>, <<"-", "|", "|">>.  *)
(* A parameter name is one atom.  Params (HashMap<&str, String>) is a      *)
(* function whose domain is the set of keys present.  Option<T> is a set   *)
(* with no element (None) or one element (Some).                           *)
(***************************************************************************)
EXTENDS Integers, Sequences, FiniteSets, TLC

VARIABLES
    params,     \* Query.params
    view,       \* the sub-query builder that borrows params: "none" or a variant
    seed,       \* the RandomState of params, fixed by HashMap::new()
    call,       \* the last call made on the Query: [op, key, val, cb]
    before,     \* params as the last call found it
    out,        \* what the last call returned: [kind, method, scheme, authority, target]
    appended,   \* history: per key, the values handed to add_param_value
    dirty,      \* history: the keys changed by anything but add_param_value
    nops,       \* number of table-changing calls made so far
    pc,         \* position of the caller: "api", or a step of the pagination loop
    round,      \* pagination loop: responses merged so far
    resp,       \* pagination loop: continue_block of the last decoded response
    plan,       \* builder chain: the methods still to call and the argument passed
    chains,     \* two request chains, each with a Query of its own
    payload,    \* response decoding: the JSON value handed to serde_json::from_str
    decoded     \* response decoding: the type asked for and the Result

vars ==
    <<params, view, seed, call, before, out, appended, dirty, nops, pc, round, resp,
      plan, chains, payload, decoded>>

-----------------------------------------------------------------------------
(* Bounds and input sets *)

MaxOps == 3
MaxRounds == 2

Values == {<<"a">>, <<"b">>}
TitleValues == {<<"a">>, <<"Main", " ", "page">>}
FormatValues == {<<"xml">>, <<"php">>}
CallerParams == {<<"action", <<"parse">>>>, <<"formatversion", <<"1">>>>}
Seeds == {"asc", "desc", "evenfirst"}

-----------------------------------------------------------------------------
(* Strings *)

None == {}
Some(v) == {v}
Unwrap(o) == CHOOSE v \in o : TRUE

Contains(s, pat) ==
    \E i \in 0..(Len(s) - Len(pat)) : SubSeq(s, i + 1, i + Len(pat)) = pat

RECURSIVE PipeJoin(_)
PipeJoin(vs) ==
    IF Len(vs) = 1 THEN vs[1]
    ELSE PipeJoin(SubSeq(vs, 1, Len(vs) - 1)) \o <<"|">> \o vs[Len(vs)]

-----------------------------------------------------------------------------
(* HashMap<&str, String> *)

EmptyParams == [k \in {} |-> <<>>]

Insert(p, k, v) == [x \in DOMAIN p \cup {k} |-> IF x = k THEN v ELSE p[x]]

OrInsert(p, k, v) == IF k \in DOMAIN p THEN p ELSE Insert(p, k, v)

KeyList ==
    << "list", "prop", "titles", "action", "format", "formatversion", "continue",
       "acfrom", "acto", "acprop", "acmin", "acmax", "aclimit", "acprefix", "acdir",
       "accontinue",
       "cmtitle", "cmpageid", "cmprop", "cmtype", "cmlimit", "cmsort", "cmdir",
       "cmstart", "cmend", "cmstarthexsortkey", "cmendhexsortkey",
       "cmstartsortkeyprefix", "cmendsortkeyprefix", "cmcontinue",
       "inprop", "intestactions", "intestactionsdetail", "incontinue",
       "desccontinue", "descprefersource",
       "exchars", "exsentences", "exlimit", "exintro", "explaintext",
       "exsectionformat", "excontinue" >>

\* the position of each key in KeyList
KeyIndex == [k \in {KeyList[i] : i \in 1..Len(KeyList)} |-> CHOOSE i \in 1..Len(KeyList) : KeyList[i] = k]

Idx(k) == KeyIndex[k]

\* Bucket position of a key under a hash seed; iteration visits buckets in order.
Rank(sd, k) ==
    CASE sd = "asc" -> Idx(k)
      [] sd = "desc" -> Len(KeyList) - Idx(k)
      [] OTHER -> IF Idx(k) % 2 = 0 THEN Idx(k) ELSE Len(KeyList) + Idx(k)

RECURSIVE IterOrder(_, _)
IterOrder(S, sd) ==
    IF S = {} THEN <<>>
    ELSE LET k == CHOOSE x \in S : \A y \in S : Rank(sd, x) <= Rank(sd, y)
         IN <<k>> \o IterOrder(S \ {k}, sd)

-----------------------------------------------------------------------------
(* SubQuery *)

\* mutants of add_param_value: the new value replaces the old one; a comma joins
add_param_value_replace(p, key, val) == Insert(p, key, val)

add_param_value_comma(p, key, val) ==
    IF key \in DOMAIN p
    THEN [p EXCEPT ![key] = p[key] \o <<",">> \o val]
    ELSE Insert(p, key, val)

add_param_value(p, key, val) ==
    IF key \in DOMAIN p
    THEN [p EXCEPT ![key] = p[key] \o <<"|">> \o val]
    ELSE Insert(p, key, val)

\* mutant of AllCategoriesQuery_new: an identity already in list is not repeated
AllCategoriesQuery_new_once(p) ==
    IF "list" \in DOMAIN p /\ \E i \in 1..Len(p["list"]) : p["list"][i] = "allcategories"
    THEN p
    ELSE add_param_value(p, "list", <<"allcategories">>)

AllCategoriesQuery_new(p) == add_param_value(p, "list", <<"allcategories">>)

CategoryMembersQuery_new(p) == add_param_value(p, "list", <<"categorymembers">>)

\* mutant of PagesQuery_new: the constructor writes an identity of its own
PagesQuery_new_identity(p) == add_param_value(p, "prop", <<"pages">>)

PagesQuery_new(p) == p


\* requests/all_categories.rs
ac_from(p, v) == add_param_value(p, "acfrom", v)
ac_to(p, v) == add_param_value(p, "acto", v)
ac_prop(p, v) == add_param_value(p, "acprop", v)
ac_min(p, v) == add_param_value(p, "acmin", v)
ac_max(p, v) == add_param_value(p, "acmax", v)
ac_limit(p, v) == add_param_value(p, "aclimit", v)
ac_prefix(p, v) == add_param_value(p, "acprefix", v)
ac_dir(p, v) == add_param_value(p, "acdir", v)
ac_continue(p, v) == add_param_value(p, "accontinue", v)

\* requests/category_members.rs
cm_title(p, v) == add_param_value(p, "cmtitle", v)
cm_page_id(p, v) == add_param_value(p, "cmpageid", v)
cm_prop(p, v) == add_param_value(p, "cmprop", v)
cm_type(p, v) == add_param_value(p, "cmtype", v)
cm_limit(p, v) == add_param_value(p, "cmlimit", v)
cm_sort(p, v) == add_param_value(p, "cmsort", v)
cm_dir(p, v) == add_param_value(p, "cmdir", v)
cm_start(p, v) == add_param_value(p, "cmstart", v)
cm_end(p, v) == add_param_value(p, "cmend", v)
cm_start_hex_sort_key(p, v) == add_param_value(p, "cmstarthexsortkey", v)
cm_end_hex_sort_key(p, v) == add_param_value(p, "cmendhexsortkey", v)
cm_start_sort_key_prefix(p, v) == add_param_value(p, "cmstartsortkeyprefix", v)
cm_end_sort_key_prefix(p, v) == add_param_value(p, "cmendsortkeyprefix", v)
cm_continue(p, v) == add_param_value(p, "cmcontinue", v)

\* requests/pages.rs
\* titles written with HashMap::insert instead of add_param_value
titles_set(p, v) == Insert(p, "titles", v)

titles(p, v) == add_param_value(p, "titles", v)
info(p) == add_param_value(p, "prop", <<"info">>)
in_prop(p, v) == add_param_value(p, "inprop", v)
in_test_actions(p, v) == add_param_value(p, "intestactions", v)
in_test_actions_detail(p, v) == add_param_value(p, "intestactionsdetail", v)
in_continue(p, v) == add_param_value(p, "incontinue", v)
\* mutant of description: the prop is set, dropping the props attached before
description_set(p) == Insert(p, "prop", <<"description">>)

description(p) == add_param_value(p, "prop", <<"description">>)
desc_continue(p, v) == add_param_value(p, "desccontinue", v)
desc_prefer_source(p, v) == add_param_value(p, "descprefersource", v)
extracts(p) == add_param_value(p, "prop", <<"extracts">>)
ex_chars(p, v) == add_param_value(p, "exchars", v)
ex_sentences(p, v) == add_param_value(p, "exsentences", v)
ex_limit(p, v) == add_param_value(p, "exlimit", v)

\* mutant of ex_intro: the flag is written as "false"
ex_intro_false(p) == add_param_value(p, "exintro", <<"false">>)

ex_intro(p) == add_param_value(p, "exintro", <<"true">>)
ex_plain_text(p) == add_param_value(p, "explaintext", <<"true">>)
ex_section_format(p, v) == add_param_value(p, "exsectionformat", v)
ex_continue(p, v) == add_param_value(p, "excontinue", v)

\* the call `m` of a chain, with argument v where the method takes one
Method(m, p, v) ==
    CASE m = "all_categories" -> AllCategoriesQuery_new(p)
      [] m = "category_members" -> CategoryMembersQuery_new(p)
      [] m = "pages" -> PagesQuery_new(p)
      [] m = "ac_from" -> ac_from(p, v)
      [] m = "ac_to" -> ac_to(p, v)
      [] m = "ac_prop" -> ac_prop(p, v)
      [] m = "ac_min" -> ac_min(p, v)
      [] m = "ac_max" -> ac_max(p, v)
      [] m = "ac_limit" -> ac_limit(p, v)
      [] m = "ac_prefix" -> ac_prefix(p, v)
      [] m = "ac_dir" -> ac_dir(p, v)
      [] m = "ac_continue" -> ac_continue(p, v)
      [] m = "cm_title" -> cm_title(p, v)
      [] m = "cm_page_id" -> cm_page_id(p, v)
      [] m = "cm_prop" -> cm_prop(p, v)
      [] m = "cm_type" -> cm_type(p, v)
      [] m = "cm_limit" -> cm_limit(p, v)
      [] m = "cm_sort" -> cm_sort(p, v)
      [] m = "cm_dir" -> cm_dir(p, v)
      [] m = "cm_start" -> cm_start(p, v)
      [] m = "cm_end" -> cm_end(p, v)
      [] m = "cm_start_hex_sort_key" -> cm_start_hex_sort_key(p, v)
      [] m = "cm_end_hex_sort_key" -> cm_end_hex_sort_key(p, v)
      [] m = "cm_start_sort_key_prefix" -> cm_start_sort_key_prefix(p, v)
      [] m = "cm_end_sort_key_prefix" -> cm_end_sort_key_prefix(p, v)
      [] m = "cm_continue" -> cm_continue(p, v)
      [] m = "titles" -> titles(p, v)
      [] m = "info" -> info(p)
      [] m = "in_prop" -> in_prop(p, v)
      [] m = "in_test_actions" -> in_test_actions(p, v)
      [] m = "in_test_actions_detail" -> in_test_actions_detail(p, v)
      [] m = "in_continue" -> in_continue(p, v)
      [] m = "description" -> description(p)
      [] m = "desc_continue" -> desc_continue(p, v)
      [] m = "desc_prefer_source" -> desc_prefer_source(p, v)
      [] m = "extracts" -> extracts(p)
      [] m = "ex_chars" -> ex_chars(p, v)
      [] m = "ex_sentences" -> ex_sentences(p, v)
      [] m = "ex_limit" -> ex_limit(p, v)
      [] m = "ex_intro" -> ex_intro(p)
      [] m = "ex_plain_text" -> ex_plain_text(p)
      [] m = "ex_section_format" -> ex_section_format(p, v)
      [] m = "ex_continue" -> ex_continue(p, v)

-----------------------------------------------------------------------------
(* responses::ContinueBlock *)

Slots == {"ac_continue", "cm_continue", "in_continue", "desc_continue", "ex_continue"}

\* the parameter name of each per-list token (its serde rename)
ContinueKey(slot) ==
    CASE slot = "ac_continue" -> "accontinue"
      [] slot = "cm_continue" -> "cmcontinue"
      [] slot = "in_continue" -> "incontinue"
      [] slot = "desc_continue" -> "desccontinue"
      [] slot = "ex_continue" -> "excontinue"

ContinueBlock(marker, present, token) ==
    [ continue |-> marker,
      ac_continue |-> IF "ac_continue" \in present THEN Some(token) ELSE None,
      cm_continue |-> IF "cm_continue" \in present THEN Some(token) ELSE None,
      in_continue |-> IF "in_continue" \in present THEN Some(token) ELSE None,
      desc_continue |-> IF "desc_continue" \in present THEN Some(token) ELSE None,
      ex_continue |-> IF "ex_continue" \in present THEN Some(token) ELSE None ]

TokenSets ==
    {S \in SUBSET Slots :
        Cardinality(S) <= 1 \/ S = {"ac_continue", "cm_continue"} \/ S = Slots}

ContinueBlocks == {ContinueBlock(<<"-", "|", "|">>, S, t) : S \in TokenSets, t \in Values}

TokenOf(b, slot) ==
    CASE slot = "ac_continue" -> b.ac_continue
      [] slot = "cm_continue" -> b.cm_continue
      [] slot = "in_continue" -> b.in_continue
      [] slot = "desc_continue" -> b.desc_continue
      [] slot = "ex_continue" -> b.ex_continue

-----------------------------------------------------------------------------
(* Query *)

\* mutant of format: the table is cleared before the format is written
format_clears(p, v) == Insert(EmptyParams, "format", v)

format(p, v) == Insert(p, "format", v)

\* mutants of uri_defaults: action is only defaulted; format is forced
uri_defaults_keep_action(p) ==
    OrInsert(OrInsert(OrInsert(p, "format", <<"json">>), "formatversion", <<"2">>),
             "action", <<"query">>)

uri_defaults_force_format(p) ==
    Insert(OrInsert(Insert(p, "format", <<"json">>), "formatversion", <<"2">>),
           "action", <<"query">>)

\* mutant of uri_defaults: a table whose target will be rejected is left alone
uri_defaults_unless_rejected(p) ==
    IF \E k \in DOMAIN p : \E i \in 1..Len(p[k]) : p[k][i] = " "
    THEN p
    ELSE Insert(OrInsert(OrInsert(p, "format", <<"json">>), "formatversion", <<"2">>),
                "action", <<"query">>)

\* mutant of uri_defaults: action is appended like a builder parameter
uri_defaults_append_action(p) ==
    add_param_value(OrInsert(OrInsert(p, "format", <<"json">>), "formatversion", <<"2">>),
                    "action", <<"query">>)

uri_defaults(p) ==
    Insert(OrInsert(OrInsert(p, "format", <<"json">>), "formatversion", <<"2">>),
           "action", <<"query">>)

RECURSIVE Fold(_, _, _)
Fold(p, order, acc) ==
    IF order = <<>> THEN acc
    ELSE Fold(p, Tail(order), acc \o <<"&", Head(order), "=">> \o p[Head(order)])

query_string(p, sd) == Fold(p, IterOrder(DOMAIN p, sd), <<"/w/api.php?">>)

\* bytes http::Uri rejects in a path-and-query
InvalidUriChars == {" "}

\* a transport layer that accepts every target
ValidTarget_always(s) == TRUE

\* http::Uri ends the path-and-query at the first '#': the scan stops there,
\* and what follows is the fragment, which is dropped without being validated
FragmentAt(s) ==
    IF \E i \in 1..Len(s) : s[i] = "#"
    THEN CHOOSE i \in 1..Len(s) : s[i] = "#" /\ \A j \in 1..(i - 1) : s[j] # "#"
    ELSE Len(s) + 1

ValidTarget(s) == \A i \in 1..(FragmentAt(s) - 1) : s[i] \notin InvalidUriChars

\* mutant of path_and_query: the target is kept whole
path_and_query_keep_fragment(s) == s

path_and_query(s) == SubSeq(s, 1, FragmentAt(s) - 1)

NoOut == [kind |-> "none", method |-> "", scheme |-> "", authority |-> "", target |-> <<>>]
ErrOut == [kind |-> "err", method |-> "", scheme |-> "", authority |-> "", target |-> <<>>]

uri(p, sd) ==
    LET qs == query_string(uri_defaults(p), sd)
    IN IF ValidTarget(qs)
       THEN [kind |-> "uri", method |-> "", scheme |-> "https",
             authority |-> "en.wikipedia.org", target |-> path_and_query(qs)]
       ELSE ErrOut

build(p, sd) ==
    LET u == uri(p, sd)
    IN IF u.kind = "err" THEN u ELSE [u EXCEPT !.kind = "request", !.method = "GET"]

\* mutant of continue_query: no token set ends the chain and drops its marker
continue_query_none_resets(p, cb) ==
    IF cb = None THEN [k \in DOMAIN p \ {"continue"} |-> p[k]]
    ELSE Insert(p, "continue", Unwrap(cb).continue)

continue_query(p, cb) ==
    IF cb = None THEN p
    ELSE LET b == Unwrap(cb)
             p1 == Insert(p, "continue", b.continue)
             p2 == IF b.ac_continue # None
                   THEN Insert(p1, "accontinue", Unwrap(b.ac_continue)) ELSE p1
         IN IF b.cm_continue # None
            THEN Insert(p2, "cmcontinue", Unwrap(b.cm_continue)) ELSE p2

-----------------------------------------------------------------------------
(* State machine *)

Keys == {KeyList[i] : i \in 1..Len(KeyList)}

Changed(p, q) == {k \in DOMAIN q : k \notin DOMAIN p \/ q[k] # p[k]}

NoCall == [op |-> "new", key |-> "", val |-> <<>>, cb |-> None]

NoPlan == [todo |-> <<>>, done |-> <<>>, arg |-> <<>>]
NoChains == <<>>
NoPayload == [t |-> "absent", v |-> "absent"]
NoDecoded == [as |-> "", ok |-> FALSE, v |-> <<>>]

\* the parts of the state a single free-running Query does not use
Unused ==
    /\ plan = NoPlan
    /\ chains = NoChains
    /\ payload = NoPayload
    /\ decoded = NoDecoded

\* a fresh Query with nothing called on it yet
Fresh ==
    /\ params = EmptyParams
    /\ view = "none"
    /\ seed \in Seeds
    /\ call = NoCall
    /\ before = EmptyParams
    /\ out = NoOut
    /\ appended = [k \in Keys |-> <<>>]
    /\ dirty = {}
    /\ nops = 0
    /\ round = 0
    /\ resp = None

\* Query::new()
Init ==
    /\ params = EmptyParams
    /\ view = "none"
    /\ seed \in Seeds
    /\ call = NoCall
    /\ before = EmptyParams
    /\ out = NoOut
    /\ appended = [k \in Keys |-> <<>>]
    /\ dirty = {}
    /\ nops = 0
    /\ pc = "api"
    /\ round = 0
    /\ resp = None
    /\ Unused

\* one call: what it does to the table, the borrow and the caller
Does(op, key, val, cb, newp, newview, result) ==
    /\ params' = newp
    /\ view' = newview
    /\ call' = [op |-> op, key |-> key, val |-> val, cb |-> cb]
    /\ before' = params
    /\ out' = result
    /\ UNCHANGED seed

\* a call that reaches add_param_value(key, val)
Appends(op, key, val, newp, newview) ==
    /\ nops < MaxOps
    /\ Does(op, key, val, None, newp, newview, NoOut)
    /\ appended' = [appended EXCEPT ![key] = Append(@, val)]
    /\ nops' = nops + 1
    /\ UNCHANGED dirty

\* a call that writes the table without add_param_value
Writes(op, key, val, cb, newp, result) ==
    /\ Does(op, key, val, cb, newp, "none", result)
    /\ dirty' = dirty \cup Changed(params, newp)
    /\ UNCHANGED appended

Api == pc = "api" /\ UNCHANGED <<pc, round, resp, plan, chains, payload, decoded>>

AllCategories ==
    /\ Api
    /\ Appends("all_categories", "list", <<"allcategories">>,
               AllCategoriesQuery_new(params), "all_categories")

CategoryMembers ==
    /\ Api
    /\ Appends("category_members", "list", <<"categorymembers">>,
               CategoryMembersQuery_new(params), "category_members")

\* PagesQuery::new appends nothing
Pages ==
    /\ Api
    /\ nops < MaxOps
    /\ Does("pages", "", <<>>, None, PagesQuery_new(params), "pages", NoOut)
    /\ nops' = nops + 1
    /\ UNCHANGED <<appended, dirty>>

AcFrom ==
    /\ Api /\ view = "all_categories"
    /\ \E v \in Values : Appends("ac_from", "acfrom", v, ac_from(params, v), view)

AcContinue ==
    /\ Api /\ view = "all_categories"
    /\ \E v \in Values :
          Appends("ac_continue", "accontinue", v, ac_continue(params, v), view)

CmTitle ==
    /\ Api /\ view = "category_members"
    /\ \E v \in TitleValues : Appends("cm_title", "cmtitle", v, cm_title(params, v), view)

CmContinue ==
    /\ Api /\ view = "category_members"
    /\ \E v \in Values :
          Appends("cm_continue", "cmcontinue", v, cm_continue(params, v), view)

Titles ==
    /\ Api /\ view = "pages"
    /\ \E v \in TitleValues : Appends("titles", "titles", v, titles(params, v), view)

Info ==
    /\ Api /\ view = "pages"
    /\ Appends("info", "prop", <<"info">>, info(params), view)

InContinue ==
    /\ Api /\ view = "pages"
    /\ \E v \in Values :
          Appends("in_continue", "incontinue", v, in_continue(params, v), view)

Description ==
    /\ Api /\ view = "pages"
    /\ Appends("description", "prop", <<"description">>, description(params), view)

Extracts ==
    /\ Api /\ view = "pages"
    /\ Appends("extracts", "prop", <<"extracts">>, extracts(params), view)

Format ==
    /\ Api
    /\ nops < MaxOps
    /\ \E v \in FormatValues : Writes("format", "format", v, None, format(params, v), NoOut)
    /\ nops' = nops + 1

\* params is a pub field: the caller writes an entry itself
CallerInsert ==
    /\ Api
    /\ nops < MaxOps
    /\ \E kv \in CallerParams :
          Writes("params.insert", kv[1], kv[2], None, Insert(params, kv[1], kv[2]), NoOut)
    /\ nops' = nops + 1

Uri ==
    /\ Api
    /\ Writes("uri", "", <<>>, None, uri_defaults(params), uri(params, seed))
    /\ UNCHANGED nops

Build ==
    /\ Api
    /\ Writes("build", "", <<>>, None, uri_defaults(params), build(params, seed))
    /\ UNCHANGED nops

ContinueQuery ==
    /\ Api
    /\ nops < MaxOps
    /\ \E cb \in {None} \cup {Some(b) : b \in ContinueBlocks} :
          Writes("continue_query", "", <<>>, cb, continue_query(params, cb), NoOut)
    /\ nops' = nops + 1

Next ==
    \/ AllCategories \/ CategoryMembers \/ Pages
    \/ AcFrom \/ AcContinue
    \/ CmTitle \/ CmContinue
    \/ Titles \/ Info \/ InContinue \/ Description \/ Extracts
    \/ Format \/ CallerInsert
    \/ Uri \/ Build
    \/ ContinueQuery

Spec == Init /\ [][Next]_vars

-----------------------------------------------------------------------------
(* The pagination loop over one reused Query: attach, then                  *)
(* build -> send -> decode -> continue_query -> build ...                   *)

InitLoop ==
    /\ params = EmptyParams
    /\ view = "none"
    /\ seed \in Seeds
    /\ call = NoCall
    /\ before = EmptyParams
    /\ out = NoOut
    /\ appended = [k \in Keys |-> <<>>]
    /\ dirty = {}
    /\ nops = 0
    /\ pc = "attach"
    /\ round = 0
    /\ resp = None
    /\ Unused

LoopAttach ==
    /\ pc = "attach"
    /\ \/ Appends("all_categories", "list", <<"allcategories">>,
                  AllCategoriesQuery_new(params), "all_categories")
       \/ Appends("category_members", "list", <<"categorymembers">>,
                  CategoryMembersQuery_new(params), "category_members")
    /\ pc' \in {"attach", "build"}
    /\ UNCHANGED <<round, resp, plan, chains, payload, decoded>>

LoopBuild ==
    /\ pc = "build"
    /\ Writes("uri", "", <<>>, None, uri_defaults(params), uri(params, seed))
    /\ pc' = IF uri(params, seed).kind = "err" THEN "done" ELSE "send"
    /\ UNCHANGED <<nops, round, resp, plan, chains, payload, decoded>>

\* the transport sends the request; the decoded response carries a
\* continue block or none
LoopDecode ==
    /\ pc = "send"
    /\ \E cb \in {None} \cup {Some(b) : b \in ContinueBlocks} :
          /\ cb # None => round < MaxRounds
          /\ resp' = cb
    /\ pc' = "merge"
    /\ UNCHANGED <<params, view, seed, call, before, out, appended, dirty, nops, round,
                   plan, chains, payload, decoded>>

LoopMerge ==
    /\ pc = "merge"
    /\ Writes("continue_query", "", <<>>, resp, continue_query(params, resp), NoOut)
    /\ pc' = IF resp = None THEN "done" ELSE "build"
    /\ round' = IF resp = None THEN round ELSE round + 1
    /\ UNCHANGED <<nops, resp, plan, chains, payload, decoded>>

NextLoop == LoopAttach \/ LoopBuild \/ LoopDecode \/ LoopMerge

SpecLoop == InitLoop /\ [][NextLoop]_vars

-----------------------------------------------------------------------------
(* Builder chains: query.<variant>().<method>(arg)...; query.build() *)

MaxAreas == 2

ArgValues == {<<"a">>, <<"1", "0">>, <<"x", "|", "y">>}
RawValues == {<<"a", "&", "b", "=", "c">>, <<"a", "#", "b">>, <<"a", "%20", "b">>}

AcMethods ==
    <<"ac_from", "ac_to", "ac_prop", "ac_min", "ac_max", "ac_limit", "ac_prefix",
      "ac_dir", "ac_continue">>

CmMethods ==
    <<"cm_title", "cm_page_id", "cm_prop", "cm_type", "cm_limit", "cm_sort", "cm_dir",
      "cm_start", "cm_end", "cm_start_hex_sort_key", "cm_end_hex_sort_key",
      "cm_start_sort_key_prefix", "cm_end_sort_key_prefix", "cm_continue">>

Areas == {"info", "description", "extracts"}

\* a prop method followed by the methods of its area
AreaMethods(a) ==
    CASE a = "info" ->
           <<"info", "in_prop", "in_test_actions", "in_test_actions_detail", "in_continue">>
      [] a = "description" ->
           <<"description", "desc_continue", "desc_prefer_source">>
      [] a = "extracts" ->
           <<"extracts", "ex_chars", "ex_sentences", "ex_limit", "ex_intro",
             "ex_plain_text", "ex_section_format", "ex_continue">>

RECURSIVE Flatten(_)
Flatten(as) == IF as = <<>> THEN <<>> ELSE AreaMethods(Head(as)) \o Flatten(Tail(as))

\* the prop areas a page query attaches, in any order, repeats included
AreaSeqs == UNION {[1..n -> Areas] : n \in 0..MaxAreas} \cup
            {as \in [1..Cardinality(Areas) -> Areas] :
                \A i, j \in 1..Cardinality(Areas) : i # j => as[i] # as[j]}

Plans ==
    {<<"all_categories">> \o AcMethods, <<"category_members">> \o CmMethods} \cup
    {<<"pages", "titles">> \o Flatten(as) : as \in AreaSeqs}

Constructors == {"all_categories", "category_members", "pages"}

Chain == pc = "chain" /\ UNCHANGED <<pc, round, resp, appended, dirty, nops, chains, payload, decoded>>

InitChain(args) ==
    /\ Fresh
    /\ pc = "chain"
    /\ plan \in {[todo |-> t, done |-> <<>>, arg |-> a] : t \in Plans, a \in args}
    /\ chains = NoChains
    /\ payload = NoPayload
    /\ decoded = NoDecoded

InitMethods == InitChain(ArgValues)

InitRaw == InitChain(RawValues)

\* the next call of the chain
CallNext ==
    /\ Chain
    /\ plan.todo # <<>>
    /\ LET m == Head(plan.todo)
       IN /\ Does(m, "", plan.arg, None, Method(m, params, plan.arg),
                  IF m \in Constructors THEN m ELSE view, NoOut)
          /\ plan' = [plan EXCEPT !.todo = Tail(@), !.done = Append(@, m)]

\* query.uri() ends the borrow of the sub-query: the chain stops where it is
ChainUri ==
    /\ Chain
    /\ Does("uri", "", <<>>, None, uri_defaults(params), "none", uri(params, seed))
    /\ plan' = [plan EXCEPT !.todo = <<>>]

ChainBuild ==
    /\ Chain
    /\ Does("build", "", <<>>, None, uri_defaults(params), "none", build(params, seed))
    /\ plan' = [plan EXCEPT !.todo = <<>>]

NextMethods == CallNext \/ ChainUri \/ ChainBuild

SpecMethods == InitMethods /\ [][NextMethods]_vars

SpecRaw == InitRaw /\ [][NextMethods]_vars

-----------------------------------------------------------------------------
(* Response decoding: serde_json::from_str into the #[derive(Deserialize)] types *)

\* JSON values; a member that an object does not hold reads as Absent
Absent == [t |-> "absent", v |-> "absent"]
JNull == [t |-> "null", v |-> "null"]
JBool(b) == [t |-> "bool", v |-> b]
JStr(s) == [t |-> "str", v |-> s]
JNum(n) == [t |-> "num", v |-> n]
JArr(s) == [t |-> "arr", v |-> s]
JObj(f) == [t |-> "obj", v |-> f]

Ok(x) == [ok |-> TRUE, v |-> x]
Err == [ok |-> FALSE, v |-> <<>>]

\* Rust types
T_bool == [k |-> "bool", a |-> <<>>]
T_String == [k |-> "String", a |-> <<>>]
T_u32 == [k |-> "u32", a |-> <<>>]
T_u64 == [k |-> "u64", a |-> <<>>]
Opt(T) == [k |-> "Option", a |-> <<T>>]
Vec(T) == [k |-> "Vec", a |-> <<T>>]
Map(T) == [k |-> "HashMap", a |-> <<T>>]
Struct(name) == [k |-> "struct", a |-> <<name>>]
Untagged(variants) == [k |-> "untagged", a |-> variants]

\* one field of a struct: its JSON key (the serde rename), its name, its type
F(key, name, T) == [key |-> key, name |-> name, ty |-> T]

DetailedActions == <<F("code", "code", T_String), F("text", "text", T_String)>>

\* mutant of Actions: the record variant is dropped
Actions_bool_only == Untagged(<<[name |-> "Bool", ty |-> T_bool]>>)

\* the variants of the untagged enum, in declaration order
Actions == Untagged(<<[name |-> "Bool", ty |-> T_bool],
                      [name |-> "Detailed", ty |-> Struct("DetailedActions")]>>)

Protection ==
    <<F("type", "protection_type", T_String), F("level", "level", T_String),
      F("expiry", "expiry", T_String)>>

\* Data from the description, extracts and info props
pages_Data_props ==
    <<F("description", "description", Opt(T_String)),
      F("descriptionsource", "description_source", Opt(T_String)),
      F("extract", "extract", Opt(T_String)),
      F("contentmodel", "content_model", Opt(T_String)),
      F("pagelanguage", "page_language", Opt(T_String)),
      F("pagelanguagehtmlcode", "page_language_html_code", Opt(T_String)),
      F("pagelanguagedir", "page_language_dir", Opt(T_String)),
      F("touched", "touched", Opt(T_String)),
      F("lastrevid", "last_rev_id", Opt(T_u32)),
      F("length", "length", Opt(T_u32)),
      F("protection", "protection", Opt(Vec(Struct("Protection")))),
      F("restrictiontypes", "restriction_types", Opt(Vec(T_String))),
      F("fullurl", "full_url", Opt(T_String)),
      F("editurl", "edit_url", Opt(T_String)),
      F("canonicalurl", "canonical_url", Opt(T_String)),
      F("displaytitle", "display_title", Opt(T_String)),
      F("actions", "actions", Opt(Map(Vec(Actions))))>>

\* mutant of pages_Data: the missing flag is a required field
pages_Data_missing_required ==
    <<F("ns", "ns", T_u32), F("title", "title", T_String),
      F("missing", "missing", T_bool), F("pageid", "page_id", T_u64)>> \o pages_Data_props

\* the default data, then the data of the props
pages_Data ==
    <<F("ns", "ns", T_u32),
      F("title", "title", T_String),
      F("missing", "missing", Opt(T_bool)),
      F("pageid", "page_id", T_u64)>> \o pages_Data_props

all_categories_Data ==
    <<F("category", "category", T_String), F("size", "size", Opt(T_u32)),
      F("pages", "pages", Opt(T_u32)), F("files", "files", Opt(T_u32)),
      F("subcats", "subcats", Opt(T_u32))>>

category_members_Data ==
    <<F("pageid", "page_id", Opt(T_u32)), F("ns", "ns", Opt(T_u32)),
      F("sortkey", "sort_key", Opt(T_String)),
      F("sortkeyprefix", "sort_key_prefix", Opt(T_String)),
      F("title", "title", Opt(T_String)), F("type", "page_type", Opt(T_String)),
      F("timestamp", "timestamp", Opt(T_String))>>

Warnings == <<F("warnings", "warnings", T_String)>>

\* mutant of WarningBlock: a warnings block always reports on the page set
WarningBlock_pages_required ==
    <<F("allcategories", "all_categories", Opt(Struct("Warnings"))),
      F("categorymembers", "category_members", Opt(Struct("Warnings"))),
      F("info", "info", Opt(Struct("Warnings"))),
      F("pages", "pages", Struct("Warnings")),
      F("description", "description", Opt(Struct("Warnings"))),
      F("extracts", "extracts", Opt(Struct("Warnings")))>>

WarningBlock ==
    <<F("allcategories", "all_categories", Opt(Struct("Warnings"))),
      F("categorymembers", "category_members", Opt(Struct("Warnings"))),
      F("info", "info", Opt(Struct("Warnings"))),
      F("pages", "pages", Opt(Struct("Warnings"))),
      F("description", "description", Opt(Struct("Warnings"))),
      F("extracts", "extracts", Opt(Struct("Warnings")))>>

\* mutant of ContinueBlock's fields: the continuation marker is optional too
ContinueBlockFields_optional_marker ==
    <<F("continue", "continue", Opt(T_String)),
      F("accontinue", "ac_continue", Opt(T_String)),
      F("cmcontinue", "cm_continue", Opt(T_String)),
      F("incontinue", "in_continue", Opt(T_String)),
      F("desccontinue", "desc_continue", Opt(T_String)),
      F("excontinue", "ex_continue", Opt(T_String))>>

ContinueBlockFields ==
    <<F("continue", "continue", T_String),
      F("accontinue", "ac_continue", Opt(T_String)),
      F("cmcontinue", "cm_continue", Opt(T_String)),
      F("incontinue", "in_continue", Opt(T_String)),
      F("desccontinue", "desc_continue", Opt(T_String)),
      F("excontinue", "ex_continue", Opt(T_String))>>

QueryBlock ==
    <<F("pages", "pages", Opt(Vec(Struct("pages::Data")))),
      F("allcategories", "all_categories", Opt(Vec(Struct("all_categories::Data")))),
      F("categorymembers", "category_members", Opt(Vec(Struct("category_members::Data"))))>>

Query ==
    <<F("batchcomplete", "batch_complete", T_bool),
      F("query", "query", Struct("QueryBlock")),
      F("continue", "continue_block", Opt(Struct("ContinueBlock"))),
      F("warnings", "warnings", Opt(Struct("WarningBlock")))>>

WikiErrorInner ==
    <<F("code", "code", T_String), F("info", "info", T_String),
      F("docref", "docref", T_String)>>

\* mutant of WikiError: the error object is optional
WikiError_optional ==
    <<F("error", "error", Opt(Struct("WikiErrorInner"))),
      F("servedby", "served_by", T_String)>>

WikiError ==
    <<F("error", "error", Struct("WikiErrorInner")),
      F("servedby", "served_by", T_String)>>

Fields(name) ==
    CASE name = "DetailedActions" -> DetailedActions
      [] name = "Protection" -> Protection
      [] name = "pages::Data" -> pages_Data
      [] name = "all_categories::Data" -> all_categories_Data
      [] name = "category_members::Data" -> category_members_Data
      [] name = "Warnings" -> Warnings
      [] name = "WarningBlock" -> WarningBlock
      [] name = "ContinueBlock" -> ContinueBlockFields
      [] name = "QueryBlock" -> QueryBlock
      [] name = "Query" -> Query
      [] name = "WikiErrorInner" -> WikiErrorInner
      [] name = "WikiError" -> WikiError

\* the member of a struct payload: by key in an object, by position in an array
Member(j, fs, i) ==
    IF j.t = "obj"
    THEN IF fs[i].key \in DOMAIN j.v THEN j.v[fs[i].key] ELSE Absent
    ELSE j.v[i]

\* a derived struct reads an object (unknown keys are skipped) or an array that
\* holds one element for every field
StructShape(j, fs) == j.t = "obj" \/ (j.t = "arr" /\ Len(j.v) = Len(fs))

RECURSIVE Deserialize(_, _)

\* mutant of Deserialize: a sequence keeps the elements that decode and drops
\* the others
Deserialize_skip_bad(T, j) ==
    CASE T.k = "bool" -> IF j.t = "bool" THEN Ok(j.v) ELSE Err
      [] T.k = "String" -> IF j.t = "str" THEN Ok(j.v) ELSE Err
      [] T.k \in {"u32", "u64"} -> IF j.t = "num" /\ j.v >= 0 THEN Ok(j.v) ELSE Err
      [] T.k = "Option" ->
           IF j.t \in {"absent", "null"} THEN Ok(None)
           ELSE LET r == Deserialize(T.a[1], j)
                IN IF r.ok THEN Ok(Some(r.v)) ELSE Err
      [] T.k = "Vec" ->
           IF j.t # "arr" THEN Err
           ELSE LET r == [i \in 1..Len(j.v) |-> Deserialize(T.a[1], j.v[i])]
                    kept == SelectSeq(r, LAMBDA x : x.ok)
                IN Ok([i \in 1..Len(kept) |-> kept[i].v])
      [] T.k = "HashMap" ->
           IF j.t # "obj" THEN Err
           ELSE LET r == [n \in DOMAIN j.v |-> Deserialize(T.a[1], j.v[n])]
                IN IF \A n \in DOMAIN j.v : r[n].ok
                   THEN Ok([n \in DOMAIN j.v |-> r[n].v]) ELSE Err
      [] T.k = "struct" ->
           LET fs == Fields(T.a[1])
           IN IF ~StructShape(j, fs) THEN Err
              ELSE LET r == [i \in 1..Len(fs) |-> Deserialize(fs[i].ty, Member(j, fs, i))]
                       at(n) == CHOOSE i \in 1..Len(fs) : fs[i].name = n
                   IN IF \A i \in 1..Len(fs) : r[i].ok
                      THEN Ok([n \in {fs[i].name : i \in 1..Len(fs)} |-> r[at(n)].v])
                      ELSE Err
      [] T.k = "untagged" ->
           LET r == [i \in 1..Len(T.a) |-> Deserialize(T.a[i].ty, j)]
               hit == {i \in 1..Len(T.a) : r[i].ok}
           IN IF hit = {} THEN Err
              ELSE LET first == CHOOSE i \in hit : \A h \in hit : i <= h
                   IN Ok([variant |-> T.a[first].name, v |-> r[first].v])

\* what <T as Deserialize>::deserialize makes of the JSON value j.  Integers of
\* the model are far below 2^32, so a number fits u32 and u64 when it is not
\* negative.
Deserialize(T, j) ==
    CASE T.k = "bool" -> IF j.t = "bool" THEN Ok(j.v) ELSE Err
      [] T.k = "String" -> IF j.t = "str" THEN Ok(j.v) ELSE Err
      [] T.k \in {"u32", "u64"} -> IF j.t = "num" /\ j.v >= 0 THEN Ok(j.v) ELSE Err
      [] T.k = "Option" ->
           IF j.t \in {"absent", "null"} THEN Ok(None)
           ELSE LET r == Deserialize(T.a[1], j)
                IN IF r.ok THEN Ok(Some(r.v)) ELSE Err
      [] T.k = "Vec" ->
           IF j.t # "arr" THEN Err
           ELSE LET r == [i \in 1..Len(j.v) |-> Deserialize(T.a[1], j.v[i])]
                IN IF \A i \in 1..Len(j.v) : r[i].ok
                   THEN Ok([i \in 1..Len(j.v) |-> r[i].v]) ELSE Err
      [] T.k = "HashMap" ->
           IF j.t # "obj" THEN Err
           ELSE LET r == [n \in DOMAIN j.v |-> Deserialize(T.a[1], j.v[n])]
                IN IF \A n \in DOMAIN j.v : r[n].ok
                   THEN Ok([n \in DOMAIN j.v |-> r[n].v]) ELSE Err
      [] T.k = "struct" ->
           LET fs == Fields(T.a[1])
           IN IF ~StructShape(j, fs) THEN Err
              ELSE LET r == [i \in 1..Len(fs) |-> Deserialize(fs[i].ty, Member(j, fs, i))]
                       at(n) == CHOOSE i \in 1..Len(fs) : fs[i].name = n
                   IN IF \A i \in 1..Len(fs) : r[i].ok
                      THEN Ok([n \in {fs[i].name : i \in 1..Len(fs)} |-> r[at(n)].v])
                      ELSE Err
      [] T.k = "untagged" ->
           LET r == [i \in 1..Len(T.a) |-> Deserialize(T.a[i].ty, j)]
               hit == {i \in 1..Len(T.a) : r[i].ok}
           IN IF hit = {} THEN Err
              ELSE LET first == CHOOSE i \in hit : \A h \in hit : i <= h
                   IN Ok([variant |-> T.a[first].name, v |-> r[first].v])

\* Payloads

\* an object holding the keys S, each with the value `val` gives it
Object(S, val(_)) == JObj([k \in S |-> val(k)])

Detail == [code |-> JStr("permissiondenied"), text |-> JStr("denied")]

\* (payloads of unlike shapes are kept in lists: a set would have to order them)
ActionPayloads ==
    << JBool(TRUE), JBool(FALSE), JNull, JStr("true"), JNum(1),
      JObj(Detail),
      JObj([code |-> JStr("c"), text |-> JStr("t"), extra |-> JNum(1)]),
      JObj([code |-> JStr("c")]),
      JObj([text |-> JStr("t")]),
      JObj([code |-> JNum(1), text |-> JStr("t")]),
      JObj([c \in {} |-> JNull]),
      JArr(<<>>),
      JArr(<<JBool(TRUE)>>),
      JArr(<<JStr("c")>>),
      JArr(<<JStr("c"), JStr("t")>>),
      JArr(<<JStr("c"), JNum(1)>>),
      JArr(<<JStr("c"), JStr("t"), JStr("u")>>) >>

CoreKeys == {"ns", "title", "pageid", "missing"}
DescriptionKeys == {"description", "descriptionsource"}
ExtractKeys == {"extract"}
InfoKeys ==
    {"contentmodel", "pagelanguage", "pagelanguagehtmlcode", "pagelanguagedir", "touched",
     "lastrevid", "length", "protection", "restrictiontypes", "fullurl", "editurl",
     "canonicalurl", "displaytitle", "actions"}
PropKeys == DescriptionKeys \cup ExtractKeys \cup InfoKeys

PageValue(k) ==
    CASE k \in {"ns", "lastrevid", "length"} -> JNum(0)
      [] k = "pageid" -> JNum(15580374)
      [] k = "missing" -> JBool(TRUE)
      [] k = "protection" ->
           JArr(<<JObj([type |-> JStr("edit"), level |-> JStr("sysop"),
                        expiry |-> JStr("infinity")])>>)
      [] k = "restrictiontypes" -> JArr(<<JStr("edit"), JStr("move")>>)
      [] k = "actions" -> JObj([edit |-> JArr(<<JBool(TRUE)>>), move |-> JArr(<<JObj(Detail)>>)])
      [] OTHER -> JStr("Main Page")

PagePayloads ==
    { Object(C \cup P, PageValue) :
        C \in SUBSET CoreKeys,
        P \in {{}, DescriptionKeys, ExtractKeys, InfoKeys, PropKeys} }

\* page records whose core fields hold a value of another type
OddPagePayloads ==
    << JObj([ns |-> JStr("0"), title |-> JStr("Main Page"), pageid |-> JNum(1)]),
       JObj([ns |-> JNum(0), title |-> JStr("Main Page"), pageid |-> JNum(-1)]),
       JObj([ns |-> JNum(0), title |-> JStr("Main Page"), pageid |-> JNum(1),
             missing |-> JNull]) >>

WarningKeys ==
    {"allcategories", "categorymembers", "info", "pages", "description", "extracts"}

WarningValue(k) == JObj([warnings |-> JStr("Unrecognized value for parameter")])

WarningPayloads == {Object(S, WarningValue) : S \in SUBSET WarningKeys}

DataPayloads ==
    { JObj([categorymembers |-> JArr(<<>>)]),
      JObj([pages |-> JArr(<<Object({"ns", "title", "pageid"}, PageValue)>>)]),
      JObj([allcategories |-> JArr(<<JObj([category |-> JStr("Lists")])>>)]) }

ErrorInner ==
    JObj([code |-> JStr("badvalue"), info |-> JStr("Unrecognized value"),
          docref |-> JStr("See https://en.wikipedia.org/w/api.php")])

QueryPayloads ==
    { JObj([batchcomplete |-> JBool(TRUE), warnings |-> w, query |-> d]) :
        w \in WarningPayloads, d \in DataPayloads } \cup
    { JObj([batchcomplete |-> JBool(TRUE), query |-> d]) : d \in DataPayloads } \cup
    { JObj([batchcomplete |-> JBool(TRUE), query |-> d, servedby |-> JStr("mw1")]) :
        d \in DataPayloads } \cup
    { JObj([query |-> d]) : d \in DataPayloads }

ErrorPayloads ==
    << JObj([error |-> ErrorInner, servedby |-> JStr("mw1")]),
      JObj([error |-> ErrorInner]),
      JObj([servedby |-> JStr("mw1")]),
      JObj([error |-> JObj([code |-> JStr("badvalue"), info |-> JStr("Unrecognized")]),
            servedby |-> JStr("mw1")]),
      JObj([error |-> ErrorInner, servedby |-> JStr("mw1"),
            batchcomplete |-> JBool(TRUE)]),
      JObj([error |-> ErrorInner, servedby |-> JStr("mw1"),
            batchcomplete |-> JBool(TRUE), query |-> JObj([c \in {} |-> JNull])]) >>

\* a response of MaxPages pages: page n holds the action-permission value
\* PageActions[c[n]], or a namespace of the wrong type when c[n] is 0
MaxPages == 3

PageActions ==
    << JBool(TRUE), JObj(Detail), JArr(<<JStr("c"), JStr("t")>>),
       JStr("true"), JNum(1), JNull >>

PageOf(i) ==
    IF i = 0
    THEN JObj([ns |-> JStr("0"), title |-> JStr("Main Page"), pageid |-> JNum(1)])
    ELSE JObj([ns |-> JNum(0), title |-> JStr("Main Page"), pageid |-> JNum(1),
               actions |-> JObj([edit |-> JArr(<<PageActions[i]>>)])])

ManyPagesPayload(c) ==
    JObj([batchcomplete |-> JBool(TRUE),
          query |-> JObj([pages |-> JArr([n \in 1..MaxPages |-> PageOf(c[n])])])])

\* envelopes: any of the members batchcomplete, query and warnings, and a
\* `continue` member that is left out, null, a string, or an object holding
\* any of the marker and the per-list tokens
EnvelopeKeys == {"batchcomplete", "query", "warnings"}

ContinueKeys == {"continue", "accontinue", "cmcontinue", "incontinue", "desccontinue",
                 "excontinue"}

ContinueValue(k) == IF k = "continue" THEN JStr("-||") ELSE JStr(k)

OddContinues == << Absent, JNull, JStr("-||") >>

EnvelopeValue(k, c) ==
    CASE k = "batchcomplete" -> JBool(TRUE)
      [] k = "query" -> JObj([allcategories |-> JArr(<<JObj([category |-> JStr("Lists")])>>)])
      [] k = "warnings" -> Object({"info"}, WarningValue)
      [] k = "continue" -> c

EnvelopePayload(K, c) ==
    JObj([k \in K \cup (IF c.t = "absent" THEN {} ELSE {"continue"}) |-> EnvelopeValue(k, c)])

OneOf(list, j) == \E i \in 1..Len(list) : j = list[i]

\* State machine of one decoding

InitDecode ==
    /\ Fresh
    /\ pc = "decode"
    /\ plan = NoPlan
    /\ chains = NoChains
    /\ \/ OneOf(ActionPayloads, payload)
       \/ payload \in PagePayloads
       \/ OneOf(OddPagePayloads, payload)
       \/ payload \in WarningPayloads
       \/ payload \in QueryPayloads
       \/ OneOf(ErrorPayloads, payload)
       \/ \E c \in [1..MaxPages -> 0..Len(PageActions)] : payload = ManyPagesPayload(c)
       \/ \E K \in SUBSET EnvelopeKeys :
             \/ \E i \in 1..Len(OddContinues) : payload = EnvelopePayload(K, OddContinues[i])
             \/ \E S \in SUBSET ContinueKeys :
                   payload = EnvelopePayload(K, Object(S, ContinueValue))
    /\ decoded = NoDecoded

\* serde_json::from_str::<T>(payload)
from_str(name, T) ==
    /\ pc = "decode"
    /\ LET r == Deserialize(T, payload)
       IN decoded' = [as |-> name, ok |-> r.ok, v |-> r.v]
    /\ UNCHANGED <<params, view, seed, call, before, out, appended, dirty, nops, pc, round,
                   resp, plan, chains, payload>>

DecodeActions == from_str("Actions", Actions)

DecodePage == from_str("pages::Data", Struct("pages::Data"))

DecodeWarningBlock == from_str("WarningBlock", Struct("WarningBlock"))

DecodeQuery == from_str("Query", Struct("Query"))

DecodeWikiError == from_str("WikiError", Struct("WikiError"))

NextDecode ==
    \/ DecodeActions
    \/ DecodePage
    \/ DecodeWarningBlock
    \/ DecodeQuery
    \/ DecodeWikiError

SpecDecode == InitDecode /\ [][NextDecode]_vars

-----------------------------------------------------------------------------
(* Two request chains, each on a Query of its own *)

ChainIds == {1, 2}

\* the hash seeds of the two tables
SeedPairs == {<<"asc", "desc">>, <<"evenfirst", "evenfirst">>}

TwoBlocks == {ContinueBlock(<<"-", "|", "|">>, Slots, t) : t \in Values}

NewQuery(sd) == [params |-> EmptyParams, out |-> NoOut, log |-> <<>>, seed |-> sd]

\* mutant of Self: every chain works on the table of the first Query
Self_shared(c, i) == c[1]

\* `self` of a method called on the Query of chain i
Self(c, i) == c[i]

InitTwo ==
    /\ Fresh
    /\ pc = "two"
    /\ plan = NoPlan
    /\ payload = NoPayload
    /\ decoded = NoDecoded
    /\ \E sp \in SeedPairs : chains = [i \in ChainIds |-> NewQuery(sp[i])]

\* chain i calls `name`, which leaves table newp and returns result
Calls(i, name, val, cb, newp, result) ==
    /\ pc = "two"
    /\ nops < MaxOps
    /\ nops' = nops + 1
    /\ chains' = [chains EXCEPT ![i] =
                    [params |-> newp, out |-> result,
                     log |-> Append(@.log, [name |-> name, val |-> val, cb |-> cb]),
                     seed |-> @.seed]]
    /\ UNCHANGED <<params, view, seed, call, before, out, appended, dirty, pc, round, resp,
                   plan, payload, decoded>>

TwoAllCategories ==
    \E i \in ChainIds :
       Calls(i, "all_categories", <<>>, None,
             AllCategoriesQuery_new(Self(chains, i).params), NoOut)

TwoAcFrom ==
    \E i \in ChainIds : \E v \in Values :
       Calls(i, "ac_from", v, None, ac_from(Self(chains, i).params, v), NoOut)

TwoFormat ==
    \E i \in ChainIds : \E v \in FormatValues :
       Calls(i, "format", v, None, format(Self(chains, i).params, v), NoOut)

TwoContinueQuery ==
    \E i \in ChainIds : \E b \in TwoBlocks :
       Calls(i, "continue_query", <<>>, Some(b),
             continue_query(Self(chains, i).params, Some(b)), NoOut)

TwoUri ==
    \E i \in ChainIds :
       LET q == Self(chains, i)
       IN Calls(i, "uri", <<>>, None, uri_defaults(q.params), uri(q.params, q.seed))

TwoBuild ==
    \E i \in ChainIds :
       LET q == Self(chains, i)
       IN Calls(i, "build", <<>>, None, uri_defaults(q.params), build(q.params, q.seed))

NextTwo ==
    \/ TwoAllCategories
    \/ TwoAcFrom
    \/ TwoFormat
    \/ TwoContinueQuery
    \/ TwoUri
    \/ TwoBuild

SpecTwo == InitTwo /\ [][NextTwo]_vars

-----------------------------------------------------------------------------
(* Reading a request target *)

\* t carries the pair &k=v, ended by the next pair or by the end of t
HasPair(t, k, v) ==
    LET pat == <<"&", k, "=">> \o v
    IN \E i \in 0..(Len(t) - Len(pat)) :
          /\ SubSeq(t, i + 1, i + Len(pat)) = pat
          /\ (i + Len(pat) = Len(t) \/ t[i + Len(pat) + 1] = "&")

\* number of pairs of t whose key is k
CountKey(t, k) ==
    Cardinality({i \in 1..(Len(t) - 2) : t[i] = "&" /\ t[i + 1] = k /\ t[i + 2] = "="})

Produced == out.kind \in {"uri", "request"}

Built == call.op \in {"uri", "build"}

AppendOps ==
    {"all_categories", "category_members", "ac_from", "ac_continue", "cm_title",
     "cm_continue", "titles", "info", "in_continue", "description", "extracts"}

\* p is q with val appended under key, and nothing else changed
AppendedTo(q, p, key, val) ==
    /\ DOMAIN p = DOMAIN q \cup {key}
    /\ \A k \in DOMAIN q : k # key => p[k] = q[k]
    /\ p[key] = IF key \in DOMAIN q THEN q[key] \o <<"|">> \o val ELSE val

-----------------------------------------------------------------------------
(* Claims *)

\* C1: a key written only by add_param_value, starting absent, holds the
\* pipe-join v1|v2|...|vn of the appended values in call order; an append on a
\* key already present extends the old value with "|" and the new value.
C1_AppendIsPipeJoin ==
    /\ \A k \in Keys :
          (appended[k] # <<>> /\ k \notin dirty) =>
              (k \in DOMAIN params /\ params[k] = PipeJoin(appended[k]))
    /\ (call.op \in AppendOps /\ call.key \in DOMAIN before) =>
          params[call.key] = before[call.key] \o <<"|">> \o call.val

C1_Witness ==
    /\ call.op = "ac_from"
    /\ appended["acfrom"] = <<(<<"a">>), (<<"b">>)>>
    /\ params["acfrom"] = <<"a", "|", "b">>

C5_EveryPresentTokenWritten ==
    (call.op = "continue_query" /\ call.cb # None) =>
        LET b == Unwrap(call.cb)
        IN /\ "continue" \in DOMAIN params
           /\ params["continue"] = b.continue
           /\ \A s \in Slots :
                 TokenOf(b, s) # None =>
                     /\ ContinueKey(s) \in DOMAIN params
                     /\ params[ContinueKey(s)] = Unwrap(TokenOf(b, s))

\* C6: merging a token set into a fresh table sets exactly continue and the
\* keys of the present tokens; the key of an absent token stays absent.
C6_ExactlyPresentKeys ==
    (call.op = "continue_query" /\ call.cb # None /\ before = EmptyParams) =>
        DOMAIN params =
            {"continue"} \cup {ContinueKey(s) : s \in {x \in Slots : TokenOf(Unwrap(call.cb), x) # None}}

\* C7: continue_query overwrites: a continuation key that held a value before
\* the merge holds exactly the new token afterwards, never old|new.
C7_TokenOverwrites ==
    (call.op = "continue_query" /\ call.cb # None) =>
        LET b == Unwrap(call.cb)
        IN /\ "continue" \in DOMAIN before => params["continue"] = b.continue
           /\ \A s \in Slots :
                 (TokenOf(b, s) # None /\ ContinueKey(s) \in DOMAIN before) =>
                     params[ContinueKey(s)] = Unwrap(TokenOf(b, s))

C9_RequestCarriesExactlyLastTokens ==
    (pc = "send" /\ round >= 1) =>
        LET b == Unwrap(resp)
        IN /\ HasPair(out.target, "continue", b.continue)
           /\ \A s \in Slots :
                 IF TokenOf(b, s) = None
                 THEN CountKey(out.target, ContinueKey(s)) = 0
                 ELSE HasPair(out.target, ContinueKey(s), Unwrap(TokenOf(b, s)))

\* C10 as claimed: constructing any variant appends one identity, under list or
\* prop, and changes no other key.
C10_EveryConstructorAppendsIdentity ==
    call.op \in {"all_categories", "category_members", "pages"} =>
        \E k \in {"list", "prop"} :
            \E id \in {<<"allcategories">>, <<"categorymembers">>, <<"pages">>,
                       <<"info">>, <<"description">>, <<"extracts">>} :
                AppendedTo(before, params, k, id)

\* C10 as amended: AllCategoriesQuery::new and CategoryMembersQuery::new append
\* their identity to list and change no other key; PagesQuery::new leaves the
\* table unchanged, and info(), description(), extracts() append the prop name.
C10_ListConstructorsAppendIdentity ==
    /\ call.op = "all_categories" =>
          AppendedTo(before, params, "list", <<"allcategories">>)
    /\ call.op = "category_members" =>
          AppendedTo(before, params, "list", <<"categorymembers">>)
    /\ call.op = "pages" => params = before
    /\ call.op \in {"info", "description", "extracts"} =>
          AppendedTo(before, params, "prop", <<call.op>>)

C10_Witness ==
    /\ call.op = "pages"
    /\ "list" \in DOMAIN before
    /\ "prop" \notin DOMAIN params

\* C12 (as stated): titles is written with set semantics: after titles(v1) and
\* then titles(v2) the table holds titles -> v2, the earlier value overwritten.
C12_TitlesOverwrites ==
    call.op = "titles" => params["titles"] = call.val

\* C12 (amended): titles(v) is an append like every other builder method: on a
\* table without titles it stores v, on a table that already holds titles -> v1
\* it stores v1|v, and it changes no other key.
C12_TitlesAppends ==
    call.op = "titles" => AppendedTo(before, params, "titles", call.val)

C12_Witness ==
    /\ call.op = "titles"
    /\ "titles" \in DOMAIN before
    /\ params["titles"] = before["titles"] \o <<"|">> \o call.val
    /\ params["titles"] # call.val

\* some value of the table holds a character no request target may contain
Malformed(p) == \E k \in DOMAIN p : \E i \in 1..Len(p[k]) : p[k][i] \in InvalidUriChars

\* C15: no sub-query construction, builder method, format or continue_query
\* returns an error, whatever the value; only uri() and build() can, and they
\* do exactly when the assembled target is malformed; build() fails if and only
\* if uri() fails on the same table.
C15_OnlyBuildFails ==
    /\ out.kind = "err" => Built
    /\ Built => (out.kind = "err" <=> Malformed(params))
    /\ Built => (build(before, seed).kind = "err" <=> uri(before, seed).kind = "err")
    /\ ~Built => out = NoOut

C15_Witness ==
    /\ call.op = "build"
    /\ out.kind = "err"
    /\ "titles" \in DOMAIN params
    /\ Malformed(params)

\* the parameter name the documentation of each method gives it
ParamName ==
    [ ac_from |-> "acfrom", ac_to |-> "acto", ac_prop |-> "acprop", ac_min |-> "acmin",
      ac_max |-> "acmax", ac_limit |-> "aclimit", ac_prefix |-> "acprefix",
      ac_dir |-> "acdir", ac_continue |-> "accontinue",
      cm_title |-> "cmtitle", cm_page_id |-> "cmpageid", cm_prop |-> "cmprop",
      cm_type |-> "cmtype", cm_limit |-> "cmlimit", cm_sort |-> "cmsort",
      cm_dir |-> "cmdir", cm_start |-> "cmstart", cm_end |-> "cmend",
      cm_start_hex_sort_key |-> "cmstarthexsortkey",
      cm_end_hex_sort_key |-> "cmendhexsortkey",
      cm_start_sort_key_prefix |-> "cmstartsortkeyprefix",
      cm_end_sort_key_prefix |-> "cmendsortkeyprefix", cm_continue |-> "cmcontinue",
      titles |-> "titles",
      in_prop |-> "inprop", in_test_actions |-> "intestactions",
      in_test_actions_detail |-> "intestactionsdetail", in_continue |-> "incontinue",
      desc_continue |-> "desccontinue", desc_prefer_source |-> "descprefersource",
      ex_chars |-> "exchars", ex_sentences |-> "exsentences", ex_limit |-> "exlimit",
      ex_intro |-> "exintro", ex_plain_text |-> "explaintext",
      ex_section_format |-> "exsectionformat", ex_continue |-> "excontinue" ]

\* the builder methods that write a parameter (not a list or prop identity)
ParamMethods == DOMAIN ParamName

Flags == {"ex_intro", "ex_plain_text"}

Wanted(m, arg) == IF m \in Flags THEN <<"true">> ELSE arg

NoRepeat(ms) == \A i, j \in 1..Len(ms) : i # j => ms[i] # ms[j]

AreaKeys(a) ==
    CASE a = "info" -> {"inprop", "intestactions", "intestactionsdetail", "incontinue"}
      [] a = "description" -> {"desccontinue", "descprefersource"}
      [] a = "extracts" -> {"exchars", "exsentences", "exlimit", "exintro", "explaintext",
                            "exsectionformat", "excontinue"}

\* the area a page-query method belongs to
AreaOf(m) == CHOOSE a \in Areas : \E i \in 1..Len(AreaMethods(a)) : AreaMethods(a)[i] = m

InArea(m) == \E a \in Areas : \E i \in 1..Len(AreaMethods(a)) : AreaMethods(a)[i] = m

\* the prop names attached so far, in call order
Attached == SelectSeq(plan.done, LAMBDA m : m \in Areas)

\* C13: a page query may attach several props: after any sequence of info(),
\* description(), extracts() calls `prop` is the pipe-join of the attached prop
\* names in call order; the parameter names of the prop areas are pairwise
\* disjoint, every area method writes a name of its own area, and no method of
\* one area changes a value written by another area.
C13_PropAreasIndependent ==
    /\ view = "pages" =>
         IF Attached = <<>>
         THEN "prop" \notin DOMAIN params
         ELSE /\ "prop" \in DOMAIN params
              /\ params["prop"] = PipeJoin([i \in 1..Len(Attached) |-> <<Attached[i]>>])
    /\ \A a, b \in Areas : a # b => AreaKeys(a) \cap AreaKeys(b) = {}
    /\ \A a \in Areas : "prop" \notin AreaKeys(a) /\ "titles" \notin AreaKeys(a)
    /\ InArea(call.op) =>
         /\ call.op \notin Areas => ParamName[call.op] \in AreaKeys(AreaOf(call.op))
         /\ call.op \in Areas =>
               \A k \in Keys \ {"prop"} :
                  /\ k \in DOMAIN params <=> k \in DOMAIN before
                  /\ k \in DOMAIN before => params[k] = before[k]
         /\ \A b \in Areas \ {AreaOf(call.op)} : \A k \in AreaKeys(b) :
               /\ k \in DOMAIN params <=> k \in DOMAIN before
               /\ k \in DOMAIN before => params[k] = before[k]
         /\ call.op \notin Areas =>
               /\ "prop" \in DOMAIN params <=> "prop" \in DOMAIN before
               /\ "prop" \in DOMAIN before => params["prop"] = before["prop"]

C13_Witness ==
    /\ call.op = "ex_continue"
    /\ plan.todo = <<>>
    /\ params["prop"] = <<"description", "|", "info", "|", "extracts">>
    /\ {"inprop", "descprefersource", "excontinue"} \subseteq DOMAIN params
    /\ params["inprop"] = plan.arg
    /\ params["descprefersource"] = plan.arg

\* the entries of a table written out as &key=value, in the given order of keys
RECURSIVE Pairs(_, _)
Pairs(p, order) ==
    IF order = <<>> THEN <<>>
    ELSE <<"&", Head(order), "=">> \o p[Head(order)] \o Pairs(p, Tail(order))

\* path, '?', and every entry of the table after default injection, once each
WholeTarget == <<"/w/api.php?">> \o Pairs(params, IterOrder(DOMAIN params, seed))

Endpoint ==
    /\ out.scheme = "https"
    /\ out.authority = "en.wikipedia.org"
    /\ out.kind = "request" => out.method = "GET"
    /\ Head(out.target) = "/w/api.php?"

\* C14 (as stated): a successfully built request is a GET for /w/api.php on the
\* fixed scheme and host whose query string is exactly the table's entries
\* after default injection, each key once as key=value behind an `&`, each
\* value verbatim, for any parameter values.
C14_TargetIsWholeTable ==
    Produced => (Endpoint /\ out.target = WholeTarget)

\* C14 (amended): the same, for values that hold no '#'; when a value holds a
\* '#', the request is still built, and its target is the text of the entries
\* up to the first '#', the rest being dropped.
C14_TargetIsTableUpToFragment ==
    Produced =>
       /\ Endpoint
       /\ (\A k \in DOMAIN params : \A i \in 1..Len(params[k]) : params[k][i] # "#")
             => out.target = WholeTarget
       /\ Len(out.target) <= Len(WholeTarget)
       /\ out.target = SubSeq(WholeTarget, 1, Len(out.target))
       /\ \A i \in 1..Len(out.target) : out.target[i] # "#"
       /\ Len(out.target) < Len(WholeTarget) => WholeTarget[Len(out.target) + 1] = "#"

C14_Witness ==
    /\ out.kind = "request"
    /\ plan.arg = <<"a", "&", "b", "=", "c">>
    /\ Len(plan.done) > 2
    /\ out.target = WholeTarget
    /\ Contains(out.target, <<"&", "acfrom", "=", "a", "&", "b", "=", "c", "&">>)

IsDetailRecord(j) ==
    /\ j.t = "obj"
    /\ {"code", "text"} \subseteq DOMAIN j.v
    /\ j.v["code"].t = "str"
    /\ j.v["text"].t = "str"

IsDetailArray(j) ==
    /\ j.t = "arr"
    /\ Len(j.v) = 2
    /\ j.v[1].t = "str"
    /\ j.v[2].t = "str"

DecodedBool ==
    /\ decoded.ok
    /\ decoded.v.variant = "Bool"
    /\ decoded.v.v = payload.v

DecodedDetailed(code, text) ==
    /\ decoded.ok
    /\ decoded.v.variant = "Detailed"
    /\ decoded.v.v = [code |-> code.v, text |-> text.v]

\* C16 (as stated): an action-permission value decodes as Bool when it is a
\* literal boolean, as Detailed when it is an object with `code` and `text`,
\* and decoding fails for any other shape.
C16_BoolThenRecordElseFail ==
    decoded.as = "Actions" =>
       /\ payload.t = "bool" => DecodedBool
       /\ IsDetailRecord(payload) => DecodedDetailed(payload.v["code"], payload.v["text"])
       /\ (payload.t # "bool" /\ ~IsDetailRecord(payload)) => ~decoded.ok

\* C16 (amended): a literal boolean decodes as Bool; an object with string
\* members `code` and `text` (other members are skipped) decodes as Detailed,
\* and so does an array of exactly two strings, read as code and text in that
\* order; decoding fails for every other shape.
C16_BoolThenRecordOrPairElseFail ==
    decoded.as = "Actions" =>
       /\ payload.t = "bool" => DecodedBool
       /\ IsDetailRecord(payload) => DecodedDetailed(payload.v["code"], payload.v["text"])
       /\ IsDetailArray(payload) => DecodedDetailed(payload.v[1], payload.v[2])
       /\ (payload.t # "bool" /\ ~IsDetailRecord(payload) /\ ~IsDetailArray(payload))
             => ~decoded.ok

C16_Witness ==
    /\ decoded.as = "Actions"
    /\ payload.t = "obj"
    /\ IsDetailRecord(payload)
    /\ decoded.ok
    /\ decoded.v.variant = "Detailed"
    /\ decoded.v.v["code"] = "permissiondenied"

\* the core members are present and hold a namespace id, a title and a page id
CoreTyped(j) ==
    /\ j.t = "obj"
    /\ {"ns", "title", "pageid"} \subseteq DOMAIN j.v
    /\ j.v["ns"].t = "num" /\ j.v["ns"].v >= 0
    /\ j.v["title"].t = "str"
    /\ j.v["pageid"].t = "num" /\ j.v["pageid"].v >= 0

\* the fields of a decoded page that hold prop data, by the JSON key they read
PropField ==
    [ description |-> "description", descriptionsource |-> "description_source",
      extract |-> "extract", contentmodel |-> "content_model",
      pagelanguage |-> "page_language", pagelanguagehtmlcode |-> "page_language_html_code",
      pagelanguagedir |-> "page_language_dir", touched |-> "touched",
      lastrevid |-> "last_rev_id", length |-> "length", protection |-> "protection",
      restrictiontypes |-> "restriction_types", fullurl |-> "full_url",
      editurl |-> "edit_url", canonicalurl |-> "canonical_url",
      displaytitle |-> "display_title", actions |-> "actions" ]

\* C17: decoding a page record, one with missing: true included, requires only
\* ns, title and pageid: it succeeds when these are present, whatever prop
\* members (description, descriptionsource, extract, info metadata, protection,
\* actions) are absent, each absent member decoding to None, and it fails when
\* ns, title or pageid is absent.
C17_PageNeedsOnlyCore ==
    (decoded.as = "pages::Data" /\ payload.t = "obj") =>
       /\ CoreTyped(payload) =>
            /\ decoded.ok
            /\ decoded.v["ns"] = payload.v["ns"].v
            /\ decoded.v["title"] = payload.v["title"].v
            /\ decoded.v["page_id"] = payload.v["pageid"].v
            /\ \A k \in DOMAIN PropField :
                  k \notin DOMAIN payload.v <=> decoded.v[PropField[k]] = None
            /\ ("missing" \notin DOMAIN payload.v \/ payload.v["missing"].t = "null")
                  <=> decoded.v["missing"] = None
       /\ (\E k \in {"ns", "title", "pageid"} : k \notin DOMAIN payload.v) => ~decoded.ok

C17_Witness ==
    /\ decoded.as = "pages::Data"
    /\ payload.t = "obj"
    /\ DOMAIN payload.v = {"ns", "title", "pageid", "missing"}
    /\ payload.v["missing"].t = "bool"
    /\ decoded.ok
    /\ decoded.v["missing"] = Some(TRUE)
    /\ decoded.v["extract"] = None
    /\ decoded.v["actions"] = None

\* the field of a decoded warnings block that reads each key
WarningField ==
    [ allcategories |-> "all_categories", categorymembers |-> "category_members",
      info |-> "info", pages |-> "pages", description |-> "description",
      extracts |-> "extracts" ]

IsWarning(j) == j.t = "obj" /\ "warnings" \in DOMAIN j.v /\ j.v["warnings"].t = "str"

\* an object whose warning keys, whichever it holds, each hold a warning text
IsWarningBlock(j) ==
    /\ j.t = "obj"
    /\ \A k \in WarningKeys \cap DOMAIN j.v : IsWarning(j.v[k])

\* block w decodes to d: Some(text) for the keys it holds, None for the others
WarningsDecoded(w, d) ==
    \A k \in WarningKeys :
       IF k \in DOMAIN w.v
       THEN d[WarningField[k]] = Some([warnings |-> w.v[k].v["warnings"].v])
       ELSE d[WarningField[k]] = None

\* the envelope holds no continuation, or one made of the marker and tokens
ContinueFits(j) ==
    \/ "continue" \notin DOMAIN j.v
    \/ j.v["continue"].t = "null"
    \/ /\ j.v["continue"].t = "obj"
       /\ "continue" \in DOMAIN j.v["continue"].v
       /\ \A k \in DOMAIN j.v["continue"].v : j.v["continue"].v[k].t = "str"

CarriesWarnings(j) ==
    /\ j.t = "obj"
    /\ {"batchcomplete", "query", "warnings"} \subseteq DOMAIN j.v
    /\ j.v["batchcomplete"].t = "bool"
    /\ IsWarningBlock(j.v["warnings"])
    /\ ContinueFits(j)

\* C18: a warnings block decodes for every subset of the keys allcategories,
\* categorymembers, info, pages, description, extracts: the keys the payload
\* holds decode to Some(warning text), every other key to None; and a response
\* that carries warnings still decodes its data, empty or not.
C18_AnySubsetOfWarnings ==
    /\ (decoded.as = "WarningBlock" /\ IsWarningBlock(payload)) =>
          (decoded.ok /\ WarningsDecoded(payload, decoded.v))
    /\ (decoded.as = "Query" /\ CarriesWarnings(payload)) =>
          /\ decoded.ok
          /\ decoded.v["warnings"] # None
          /\ WarningsDecoded(payload.v["warnings"], Unwrap(decoded.v["warnings"]))
          /\ "categorymembers" \in DOMAIN payload.v["query"].v =>
                /\ decoded.v["query"]["category_members"] # None
                /\ Len(Unwrap(decoded.v["query"]["category_members"]))
                      = Len(payload.v["query"].v["categorymembers"].v)
          /\ "pages" \in DOMAIN payload.v["query"].v =>
                /\ decoded.v["query"]["pages"] # None
                /\ Len(Unwrap(decoded.v["query"]["pages"]))
                      = Len(payload.v["query"].v["pages"].v)

C18_Witness ==
    /\ decoded.as = "Query"
    /\ CarriesWarnings(payload)
    /\ DOMAIN payload.v["warnings"].v = {"categorymembers", "extracts"}
    /\ "categorymembers" \in DOMAIN payload.v["query"].v
    /\ decoded.ok
    /\ decoded.v["query"]["category_members"] = Some(<<>>)
    /\ Unwrap(decoded.v["warnings"])["category_members"] # None
    /\ Unwrap(decoded.v["warnings"])["info"] = None

\* an `error` object with code, info and docref, and `servedby`
ErrorLike(j) ==
    /\ j.t = "obj"
    /\ {"error", "servedby"} \subseteq DOMAIN j.v
    /\ j.v["servedby"].t = "str"
    /\ j.v["error"].t = "obj"
    /\ {"code", "info", "docref"} \subseteq DOMAIN j.v["error"].v
    /\ \A k \in {"code", "info", "docref"} : j.v["error"].v[k].t = "str"

\* `batchcomplete` and a `query` block
QueryLike(j) ==
    /\ j.t = "obj"
    /\ {"batchcomplete", "query"} \subseteq DOMAIN j.v
    /\ j.v["batchcomplete"].t = "bool"
    /\ j.v["query"].t = "obj"

AsWikiError == Deserialize(Struct("WikiError"), payload).ok

AsQuery == Deserialize(Struct("Query"), payload).ok

\* C19 (as stated): a server-reported error payload (error object and servedby,
\* no query block) decodes as WikiError and not as responses::Query, a
\* successful query payload does not decode as WikiError, and no payload
\* decodes as both.
C19_ErrorXorQuery ==
    /\ decoded.as = "WikiError" =>
          /\ decoded.ok = AsWikiError
          /\ (ErrorLike(payload) /\ "query" \notin DOMAIN payload.v) => decoded.ok
          /\ decoded.ok => ~AsQuery
    /\ decoded.as = "Query" =>
          /\ decoded.ok = AsQuery
          /\ (ErrorLike(payload) /\ "query" \notin DOMAIN payload.v) => ~decoded.ok
          /\ decoded.ok => ~AsWikiError

\* C19 (amended): an error payload without a query block decodes as WikiError
\* and not as responses::Query, and a query payload that lacks the error
\* object or servedby does not decode as WikiError; members a type does not
\* declare are skipped, so a payload that holds error, servedby, batchcomplete
\* and query decodes as both, and only such a payload does.
C19_ErrorXorQueryUnlessBoth ==
    /\ decoded.as = "WikiError" =>
          /\ decoded.ok = AsWikiError
          /\ (ErrorLike(payload) /\ "query" \notin DOMAIN payload.v) => decoded.ok
          /\ decoded.ok => ErrorLike(payload)
          /\ decoded.ok => (AsQuery <=> QueryLike(payload))
    /\ decoded.as = "Query" =>
          /\ decoded.ok = AsQuery
          /\ (ErrorLike(payload) /\ "query" \notin DOMAIN payload.v) => ~decoded.ok
          /\ decoded.ok => QueryLike(payload)
          /\ decoded.ok => (AsWikiError <=> ErrorLike(payload))

C19_Witness ==
    /\ decoded.as = "WikiError"
    /\ ErrorLike(payload)
    /\ "query" \notin DOMAIN payload.v
    /\ "batchcomplete" \notin DOMAIN payload.v
    /\ decoded.ok
    /\ decoded.v["error"]["code"] = "badvalue"
    /\ decoded.v["served_by"] = "mw1"
    /\ ~AsQuery

\* one call of a chain run on a Query by itself
Alone(op, q) ==
    CASE op.name = "all_categories" ->
           [q EXCEPT !.params = AllCategoriesQuery_new(q.params), !.out = NoOut]
      [] op.name = "ac_from" ->
           [q EXCEPT !.params = ac_from(q.params, op.val), !.out = NoOut]
      [] op.name = "format" ->
           [q EXCEPT !.params = format(q.params, op.val), !.out = NoOut]
      [] op.name = "continue_query" ->
           [q EXCEPT !.params = continue_query(q.params, op.cb), !.out = NoOut]
      [] op.name = "uri" ->
           [q EXCEPT !.params = uri_defaults(q.params), !.out = uri(q.params, q.seed)]
      [] op.name = "build" ->
           [q EXCEPT !.params = uri_defaults(q.params), !.out = build(q.params, q.seed)]

\* the calls of a log run in order on a new Query, with no other chain around
RECURSIVE RunAlone(_, _)
RunAlone(log, q) ==
    IF log = <<>> THEN q ELSE RunAlone(Tail(log), Alone(Head(log), q))

\* C20: two request chains that each own their Query are independent under
\* every interleaving of their calls: the table and the last result of each
\* chain are those its own calls produce when run alone.
C20_ChainsIndependent ==
    pc = "two" =>
       \A i \in ChainIds :
          LET alone == RunAlone(chains[i].log, NewQuery(chains[i].seed))
          IN /\ chains[i].params = alone.params
             /\ chains[i].out = alone.out

C20_Witness ==
    /\ pc = "two"
    /\ Len(chains[1].log) = 2
    /\ chains[1].out.kind = "request"
    /\ chains[2].log # <<>>
    /\ chains[2].log[1].name = "format"
    /\ "list" \in DOMAIN chains[1].params
    /\ HasPair(chains[1].out.target, "format", <<"json">>)
    /\ chains[2].params["format"] = <<"xml">>

ContinuationKeys == {"continue"} \cup {ContinueKey(s) : s \in Slots}

\* C23: every operation on a Query changes only the keys it names and removes
\* none: a sub-query constructor or builder method changes exactly the one key
\* it appends to, format changes only format, continue_query changes only
\* continuation keys, uri/build changes only format, formatversion and action;
\* so the key set of the table only grows.
C23_OnlyNamedKeysChange ==
    pc = "api" =>
       /\ DOMAIN before \subseteq DOMAIN params
       /\ call.op \in AppendOps => Changed(before, params) = {call.key}
       /\ call.op = "pages" => Changed(before, params) = {}
       /\ call.op = "format" => Changed(before, params) \subseteq {"format"}
       /\ call.op = "continue_query" => Changed(before, params) \subseteq ContinuationKeys
       /\ call.op \in {"uri", "build"} =>
             Changed(before, params) \subseteq {"format", "formatversion", "action"}
       /\ \A k \in DOMAIN before \ Changed(before, params) : params[k] = before[k]

C23_Witness ==
    /\ pc = "api"
    /\ call.op = "continue_query"
    /\ call.cb # None
    /\ {"list", "acfrom", "format"} \subseteq DOMAIN before
    /\ "continue" \notin DOMAIN before
    /\ Changed(before, params) = {"continue", "accontinue"}

\* C24: uri()/build() is idempotent on the table: a second call with no other
\* operation in between leaves the table as the first call left it and gives a
\* request target with the same key=value pairs as the first.
C24_SecondBuildChangesNothing ==
    [][(Built /\ call'.op \in {"uri", "build"}) =>
          /\ params' = params
          /\ out'.kind = "err" <=> out.kind = "err"
          /\ out'.target = out.target
          /\ \A k \in DOMAIN params :
                HasPair(out.target, k, params[k]) <=> HasPair(out'.target, k, params'[k])]_vars

C24_Witness ==
    /\ pc = "chain"
    /\ call.op = "build"
    /\ "action" \in DOMAIN before
    /\ before = params
    /\ Len(plan.done) > 2
    /\ out.kind = "request"
    /\ \A k \in DOMAIN params : HasPair(out.target, k, params[k])

\* the table a successful build leaves behind, given the table before it
AfterBuild(p) ==
    [k \in DOMAIN p \cup {"format", "formatversion", "action"} |->
        IF k = "action" THEN <<"query">>
        ELSE IF k \in DOMAIN p THEN p[k]
        ELSE IF k = "format" THEN <<"json">> ELSE <<"2">>]

\* C25: uri() writes format, formatversion and action into the table before
\* the target is validated, so when uri()/build() returns an error the table is
\* not restored: it holds action=query and the format and formatversion
\* entries exactly as after a successful build.
C25_FailedBuildKeepsDefaults ==
    (Built /\ out.kind = "err") => params = AfterBuild(before)

C25_Witness ==
    /\ call.op = "uri"
    /\ out.kind = "err"
    /\ DOMAIN before \cap {"format", "formatversion", "action"} = {}
    /\ params["action"] = <<"query">>
    /\ params["format"] = <<"json">>
    /\ params["formatversion"] = <<"2">>
    /\ params # before

\* the identities a list value holds, counted with repetition
Identities(value, id) == Cardinality({i \in 1..Len(value) : value[i] = id})

AttachCalls(id) == Cardinality({i \in 1..Len(appended["list"]) : appended["list"][i] = <<id>>})

\* C26: attaching a sub-query variant is not idempotent: attaching a variant to
\* a Query that already holds its identity appends the identity once more
\* (allcategories|allcategories), also when a build or a continuation came in
\* between, so list holds each identity as many times as the variant was
\* attached.
C26_AttachRepeatsIdentity ==
    /\ \A id \in {"allcategories", "categorymembers"} :
          IF "list" \in DOMAIN params
          THEN Identities(params["list"], id) = AttachCalls(id)
          ELSE AttachCalls(id) = 0
    /\ (call.op \in {"all_categories", "category_members"} /\ "list" \in DOMAIN before) =>
          /\ Len(params["list"]) = Len(before["list"]) + 2
          /\ \A id \in {"allcategories", "categorymembers"} :
                Identities(params["list"], id) =
                    Identities(before["list"], id) + (IF call.val = <<id>> THEN 1 ELSE 0)

C26_Witness ==
    /\ call.op = "all_categories"
    /\ {"action", "list"} \subseteq DOMAIN before
    /\ before["list"] = <<"allcategories">>
    /\ params["list"] = <<"allcategories", "|", "allcategories">>
    /\ AttachCalls("allcategories") = 2

\* the pages of a response payload that holds a page list
PageList(j) == j.v["query"].v["pages"].v

HoldsPages(j) ==
    /\ QueryLike(j)
    /\ "pages" \in DOMAIN j.v["query"].v
    /\ j.v["query"].v["pages"].t = "arr"
    /\ Len(PageList(j)) > 1
    /\ \A i \in 1..Len(PageList(j)) :
          /\ PageList(j)[i].t = "obj"
          /\ DOMAIN PageList(j)[i].v \subseteq {"ns", "title", "pageid", "actions"}
    /\ DOMAIN j.v \subseteq {"batchcomplete", "query"}

\* the shapes an action-permission value decodes from (C16: a boolean, a
\* code/text record, or an array of two strings)
ActionShaped(a) == a.t = "bool" \/ IsDetailRecord(a) \/ IsDetailArray(a)

\* one page of the list matches the shape of pages::Data
PageFits(pg) ==
    /\ CoreTyped(pg)
    /\ "actions" \in DOMAIN pg.v =>
          /\ pg.v["actions"].t = "obj"
          /\ \A n \in DOMAIN pg.v["actions"].v :
                /\ pg.v["actions"].v[n].t = "arr"
                /\ \A i \in 1..Len(pg.v["actions"].v[n].v) :
                      ActionShaped(pg.v["actions"].v[n].v[i])

\* C21: response decoding is all-or-nothing: when one element of the payload
\* does not match its shape (one action-permission value in one page among
\* several, or one page's namespace), decoding the whole response fails and
\* nothing decoded is returned, not even the pages that match; when every
\* element matches, every page is returned.
C21_AllOrNothing ==
    /\ (decoded.as # "" /\ ~decoded.ok) => decoded.v = <<>>
    /\ (decoded.as = "Query" /\ HoldsPages(payload)) =>
          /\ decoded.ok <=> \A i \in 1..Len(PageList(payload)) : PageFits(PageList(payload)[i])
          /\ decoded.ok =>
                /\ decoded.v["query"]["pages"] # None
                /\ Len(Unwrap(decoded.v["query"]["pages"])) = Len(PageList(payload))

C21_Witness ==
    /\ decoded.as = "Query"
    /\ HoldsPages(payload)
    /\ Len(PageList(payload)) > 2
    /\ PageFits(PageList(payload)[1])
    /\ PageFits(PageList(payload)[3])
    /\ CoreTyped(PageList(payload)[2])
    /\ PageList(payload)[2].v["actions"].v["edit"].v[1].t = "str"
    /\ ~decoded.ok
    /\ decoded.v = <<>>

\* an envelope whose members, where it holds them, are a boolean batchcomplete,
\* a query block and a warnings block that decode, and a `continue` that is
\* null, a string or an object of strings
EnvelopeShaped(j) ==
    /\ j.t = "obj"
    /\ "batchcomplete" \in DOMAIN j.v => j.v["batchcomplete"].t = "bool"
    /\ "query" \in DOMAIN j.v => Deserialize(Struct("QueryBlock"), j.v["query"]).ok
    /\ "warnings" \in DOMAIN j.v => IsWarningBlock(j.v["warnings"])
    /\ "continue" \in DOMAIN j.v =>
          \/ j.v["continue"].t \in {"null", "str"}
          \/ /\ j.v["continue"].t = "obj"
             /\ \A k \in DOMAIN j.v["continue"].v : j.v["continue"].v[k].t = "str"

HasContinueObject(j) == "continue" \in DOMAIN j.v /\ j.v["continue"].t = "obj"

====
